---------------------------- MODULE Spec2Model ----------------------------
(*************************************************************************)
(* Trace-guided replay driver of hase (src/hase/symbex/tracer.py).       *)
(*                                                                       *)
(* Tracer.run() walks the filtered trace edge by edge; Tracer.execute()  *)
(* advances the current simulator state by one instruction and chooses   *)
(* the next state.  Simulator states are objects: they live in `heap`    *)
(* and are referred to by their index, so that in-place writes and       *)
(* aliasing between the current state and recorded major states are      *)
(* visible.  The instruction-level simulator (angr) is the environment:  *)
(* what it returns for a step request is drawn from bounded sets.        *)
(*************************************************************************)
EXTENDS Integers, Sequences, FiniteSets, TLC

(*************************************************************************)
(* Bounds of the model.                                                  *)
(*************************************************************************)
MaxTrace == 3       \* longest filtered trace of the replay specification
MaxAddr == 2        \* code addresses are 0..MaxAddr; 0 lies in no loaded object
MaxCand == 3        \* most candidates the simulator returns for one step
MaxLen == 420       \* longest filtered trace of the sampling specification
MinLen == 380       \* shortest filtered trace of the outcome specification
MaxReq == 3         \* most requests written to the debugger in one session
MaxRecs == 2        \* most output records gdb prints for one request
MaxMaps == 3        \* most entries of a coredump's mapping table
RegionSize == 2     \* number of addresses of one mapped region
MaxFrames == 6      \* stack addresses the debugger reports: StartRsp + 8 * (0..MaxFrames)
MaxRaw == 4         \* longest raw trace given to Tracer.__init__
MaxRawAddr == 3     \* addresses of raw trace events: 1..MaxRawAddr
MaxBit == 4         \* intel_pt format files place options in bits 0..MaxBit

(*************************************************************************)
(* Program constants.                                                    *)
(*************************************************************************)
SampleDivisor == 200        \* run(): len(self.trace) // 200
FinalSteps == 15            \* run(): length - cnt < 15
DebugStateLen == 5          \* run(): deque(maxlen=5)
WordSize == 8               \* execute(): rsp -= 8 / rsp += 8
X86_OP_REG == 1             \* capstone operand type tested by "== 1"
X86_OP_IMM == 2             \* capstone operand type tested by "== 2"
X86_OP_MEM == 3             \* capstone operand type tested by "== 3"
max_str_len == 128          \* state.libc.max_str_len, the clamp of repair_alloca_ins
InsnSize == 1               \* size of every instruction of the modelled binary
StartRsp == 64              \* stack pointer the debugger reports for the start frame
StartRbp == 72              \* base pointer the debugger reports for the start frame
TableAddr == 1              \* address of the jump-table slot of the modelled binary
CoreGpr == 7                \* value the coredump holds for every register but rip, rsp

\* A symbolic (non-concrete) value: state.solver.symbolic(v) holds.
Sym == -1000000

\* Python's None where a number is expected
NoneVal == -1

\* the sentinel 0x7FFFFFFCF00 of Tracer.__init__ (a number of the model's range
\* stands for it)
Sentinel == 1000000

symbolic(v) == v = Sym

Addr == 0..MaxAddr

\* Values a register or a memory word can hold in the model.
Value == {Sym} \cup 0..(MaxAddr + 1)

(*************************************************************************)
(* Path constraints.  A constraint is a literal c or its negation -c of  *)
(* one branch condition; a store is satisfiable iff it holds no literal  *)
(* together with its negation.                                           *)
(*************************************************************************)
Literals == {1, -1}

satisfiable(cons) == \A c \in cons : (0 - c) \notin cons

(*************************************************************************)
(* Registers of a simulator state.                                       *)
(*************************************************************************)
CoredumpRegs == {"gs", "rip", "rdx", "r15", "rax", "rsi", "rcx", "r14", "fs",
                 "r12", "r13", "r10", "r11", "rbx", "r8", "r9", "eflags", "rdi"}

RegNames == CoredumpRegs \cup {"rsp", "rbp", "ip_at_syscall"}

\* v + d on a possibly symbolic value
Plus(v, d) == IF symbolic(v) THEN Sym ELSE v + d

\* state.memory.load(a, 8): a word never written is unconstrained
Load(mem, a) == IF a \in DOMAIN mem THEN mem[a] ELSE Sym

\* state.memory.store(a, v); a store through a symbolic address lands nowhere
\* the model tracks
Store(mem, a, v) ==
    IF symbolic(a) THEN mem
    ELSE [x \in (DOMAIN mem) \cup {a} |-> IF x = a THEN v ELSE mem[x]]

SetReg(st, r, v) == [st EXCEPT !.regs[r] = v]

\* state.addr
addr(st) == st.regs["rip"]

(*************************************************************************)
(* Instructions of the traced binary, as capstone decodes them.          *)
(*************************************************************************)
NoOp == [type |-> 0, reg |-> "", base |-> "", index |-> "", scale |-> 0, disp |-> 0]
RegOp(r) == [NoOp EXCEPT !.type = X86_OP_REG, !.reg = r]
ImmOp == [NoOp EXCEPT !.type = X86_OP_IMM]
MemOp(b, d) == [NoOp EXCEPT !.type = X86_OP_MEM, !.base = b, !.disp = d]

Insn(m, o0, o1) == [mnemonic |-> m, op0 |-> o0, op1 |-> o1]

BranchInsns ==
    { Insn("ret", NoOp, NoOp),
      Insn("call", RegOp("rax"), NoOp),
      Insn("call", ImmOp, NoOp),
      Insn("call", MemOp("", TableAddr), NoOp),
      Insn("jmp", RegOp("rax"), NoOp),
      Insn("jmp", ImmOp, NoOp),
      Insn("jmp", MemOp("rax", 0), NoOp),
      Insn("jne", ImmOp, NoOp),
      Insn("syscall", NoOp, NoOp) }

\* mov rax, imm carries its immediate in op1.disp
OtherInsns ==
    { Insn("mov", RegOp("rax"), [ImmOp EXCEPT !.disp = v]) : v \in 1..MaxAddr }
    \cup
    { Insn("mov", RegOp("rsp"), RegOp("rax")),
      Insn("sub", RegOp("rsp"), RegOp("rax")) }

Insns == BranchInsns \cup OtherInsns

\* The trace decoder's class of an instruction.  The driver only tests a class
\* for equality with ptic_other, so all branch classes are one class here.
IClass == {"ptic_other", "ptic_branch"}

ClassOf(insn) == IF insn \in OtherInsns THEN "ptic_other" ELSE "ptic_branch"

Undecoded == Insn("?", NoOp, NoOp)


(*************************************************************************)
(* The simulator (environment).  A step request on state st, decoded as  *)
(* insn, yields candidate successors: each is st after the instruction's *)
(* own register and memory effect, at the candidate's address, with the  *)
(* candidate's branch literal added to the constraint store.             *)
(*************************************************************************)
NaturalEffect(st, insn) ==
    LET rsp == st.regs["rsp"]
        fall == addr(st) + InsnSize
    IN  CASE insn.mnemonic = "ret" ->
                SetReg(st, "rsp", Plus(rsp, WordSize))
          [] insn.mnemonic = "call" ->
                [SetReg(st, "rsp", Plus(rsp, 0 - WordSize))
                    EXCEPT !.mem = Store(st.mem, Plus(rsp, 0 - WordSize), fall)]
          [] insn.mnemonic = "mov" /\ insn.op1.type = X86_OP_IMM ->
                SetReg(st, insn.op0.reg, insn.op1.disp)
          [] insn.mnemonic = "mov" /\ insn.op1.type = X86_OP_REG ->
                SetReg(st, insn.op0.reg, st.regs[insn.op1.reg])
          [] insn.mnemonic = "sub" ->
                SetReg(st, insn.op0.reg,
                       IF symbolic(st.regs[insn.op1.reg]) THEN Sym
                       ELSE Plus(st.regs[insn.op0.reg], 0 - st.regs[insn.op1.reg]))
          [] OTHER -> st

\* The branch literal of the k-th candidate of a step whose condition is
\* symbolic: taken, not taken, none.
CandLit(k, cond) == IF ~cond THEN 0 ELSE IF k = 1 THEN 1 ELSE IF k = 2 THEN -1 ELSE 0

Successor(st, insn, target, lit) ==
    LET eff == NaturalEffect(st, insn)
    IN  [SetReg(eff, "rip", target)
            EXCEPT !.cons = IF lit = 0 THEN st.cons ELSE st.cons \cup {lit},
                   !.natural = TRUE]

\* project.factory.successors(state, num_inst=1, ...): the candidates of a step
\* with targets `addrs`, as the record angr returns
Successors(st, insn, addrs, cond) ==
    LET all == [k \in 1..Len(addrs) |-> Successor(st, insn, addrs[k], CandLit(k, cond))]
    IN  [successors |-> SelectSeq(all, LAMBDA c : satisfiable(c.cons)),
         unsat_successors |-> SelectSeq(all, LAMBDA c : ~satisfiable(c.cons))]

\* state.copy()
copy(st) == [st EXCEPT !.natural = FALSE]

(*************************************************************************)
(* Tracer.repair_jump_ins: decides whether the successor is synthesized  *)
(* (force_jump) and how (force_type); writes the expected destination    *)
(* into the operand register of an indirect call/jmp, in place.          *)
(*************************************************************************)
JumpResult(fj, ft, st) == [force_jump |-> fj, force_type |-> ft, state |-> st]

repair_jump_mem(state, instruction, first_ins) ==
    LET mem == first_ins.op0
        ins == first_ins.mnemonic
        index_sym == mem.index # "" /\ symbolic(state.regs[mem.index])
        base_sym == mem.base # "" /\ symbolic(state.regs[mem.base])
        target == mem.disp
                  + (IF mem.index # "" THEN state.regs[mem.index] * mem.scale ELSE 0)
                  + (IF mem.base # "" THEN state.regs[mem.base] ELSE 0)
    IN  IF index_sym \/ base_sym THEN JumpResult(TRUE, ins, state)
        ELSE LET ip_mem == Load(state.mem, target)
             IN  IF ~symbolic(ip_mem)
                 THEN IF ip_mem # instruction.ip
                      THEN JumpResult(TRUE, ins, state)
                      ELSE JumpResult(TRUE, "ok", state)
                 ELSE JumpResult(TRUE, ins, state)

\* repair_jump_ins forcing every call and jmp, whatever its operand holds
repair_jump_ins_forced(state, previous_instruction, instruction, first_ins) ==
    IF first_ins.mnemonic \in {"jmp", "call"}
    THEN JumpResult(TRUE, first_ins.mnemonic, state)
    ELSE JumpResult(FALSE, "ok", state)

repair_jump_ins(state, previous_instruction, instruction, first_ins) ==
    LET ins_repr == first_ins.mnemonic
    IN  IF previous_instruction.iclass = "ptic_other"
           \/ previous_instruction.ip # addr(state)
        THEN JumpResult(FALSE, "", state)
        ELSE IF ins_repr = "ret"
        THEN IF ~symbolic(state.regs["rsp"])
             THEN LET mem == Load(state.mem, state.regs["rsp"])
                      jump_target == IF ~symbolic(mem) THEN mem ELSE 0
                  IN  IF jump_target # instruction.ip
                      THEN JumpResult(TRUE, "ret", state)
                      ELSE JumpResult(TRUE, "ok", state)
             ELSE JumpResult(TRUE, "ret", state)
        ELSE IF ins_repr \in {"jmp", "call"}
        THEN IF first_ins.op0.type = X86_OP_REG
             THEN LET reg_v == state.regs[first_ins.op0.reg]
                  IN  IF symbolic(reg_v) \/ reg_v # instruction.ip
                      THEN JumpResult(TRUE, ins_repr,
                                      SetReg(state, first_ins.op0.reg, instruction.ip))
                      ELSE JumpResult(FALSE, "ok", state)
             ELSE IF first_ins.op0.type = X86_OP_IMM
             THEN JumpResult(TRUE, ins_repr, state)
             ELSE IF first_ins.op0.type = X86_OP_MEM
             THEN repair_jump_mem(state, instruction, first_ins)
             ELSE JumpResult(FALSE, "ok", state)
        ELSE JumpResult(FALSE, "ok", state)

(*************************************************************************)
(* Tracer.repair_alloca_ins: clamps, in place, the symbolic amount of    *)
(* "sub rsp|rbp, reg".                                                   *)
(*************************************************************************)
repair_alloca_ins(state, first_ins) ==
    IF /\ first_ins.mnemonic = "sub"
       /\ first_ins.op0.reg \in {"rsp", "rbp"}
       /\ first_ins.op1.type = X86_OP_REG
       /\ symbolic(state.regs[first_ins.op1.reg])
    THEN SetReg(state, first_ins.op1.reg, max_str_len)
    ELSE state


(*************************************************************************)
(* State of a run.                                                       *)
(*************************************************************************)
VARIABLES
    trace,              \* self.trace: the filtered trace, events [ip, iclass]
    eq_by_value,        \* whether Instruction == compares fields or identity
    code,               \* the binary: decoded instruction per address, filled on decode
    pc,                 \* "run": in the loop of run(); "done": returned; "raised"
    exc,                \* the exception that left run(), "" if none
    cnt,                \* run(): cnt
    executed,           \* number of calls of execute() so far
    heap,               \* simulator state objects; an object's id is its index
    simstate,           \* run(): simstate, the id of the current state
    major_states,       \* states.major_states
    debug_state,        \* self.debug_state: ids of the last states given to execute()
    debug_sat,          \* self.debug_sat (0: unset)
    debug_unsat,        \* self.debug_unsat (0: None)
    constraints_index,  \* self.constraints_index: set of <<constraint, index>>
    coredump,           \* self.coredump.registers as read by constrain_registers
    last                \* what the last call of execute() did and was answered

tracer_vars == <<trace, eq_by_value, code, pc, exc, cnt, executed, heap, simstate,
                 major_states, debug_state, debug_sat, debug_unsat,
                 constraints_index, coredump, last>>

(*************************************************************************)
(* State of the debugger session (CoredumpGDB).  gdb is a process of its *)
(* own: it reads requests from its input and writes output records at    *)
(* its own pace.  A record is represented by the number of the request   *)
(* that made gdb print it (0: gdb's start-up banner).                    *)
(*************************************************************************)
VARIABLES
    gdb_stdin,          \* requests written to gdb and not yet answered in full
    gdb_stdout,         \* records gdb has printed and nobody has read yet
    gdb_call,           \* the running get_response(): [active, req, resp]
    gdb_result,         \* what the last write_request returned: [req, resp]
    gdb_next            \* number of the next request

gdb_vars == <<gdb_stdin, gdb_stdout, gdb_call, gdb_result, gdb_next>>

(*************************************************************************)
(* State of the loader (src/hase/loader.py) and of build_load_options.   *)
(*************************************************************************)
VARIABLES
    mappings,           \* the coredump's mapping table, in table order
    files,              \* the filesystem: what the file at an absolute path is
    shared_objects,     \* Loader.shared_objects
    loader_ret          \* the last call on the loader and what it returned

loader_vars == <<mappings, files, shared_objects, loader_ret>>

(*************************************************************************)
(* State of Tracer.__init__ (stack setup, entry-point trimming) and of   *)
(* the ptconfig helper (src/bin/ptconfig.py).                            *)
(*************************************************************************)
VARIABLES
    stack_setup,        \* the debugger's answers and the start state's rsp, rbp
    raw_trace,          \* the trace given to Tracer.__init__
    elf_symbols,        \* self.elf.symbols.get("_start"), .get("main")
    trimming,           \* self.trace and the position of the loop that trims it
    pt_options,         \* ptconfig: option name -> <<start bit, end bit>>
    text_config,        \* ptconfig: the text config, option name -> value
    hex_config,         \* ptconfig: the hex config, a string of hex digits
    pt_ret              \* ptconfig: what the conversion back to text gave

init_vars == <<stack_setup, raw_trace, elf_symbols, trimming>>

pt_vars == <<pt_options, text_config, hex_config, pt_ret>>

service_vars == <<gdb_vars, loader_vars, init_vars, pt_vars>>

vars == <<tracer_vars, service_vars>>

\* Python's self.trace[i]
T(i) == trace[i + 1]

\* addresses contained in a loaded object: every address but 0
LoadedAddrs == 1..MaxAddr

\* valid_address accepting any address
valid_address_any(address) == address >= 0

\* Tracer.valid_address: project.loader.find_object_containing(address)
valid_address(address) == address \in LoadedAddrs

\* Instruction.__eq__ on the events at positions i and j of the trace
InstructionEq(i, j) == i = j \/ (eq_by_value /\ T(i) = T(j))

(*************************************************************************)
(* Tracer.last_match, Tracer.jump_match                                  *)
(*************************************************************************)
\* last_match never recognising the self-loop
last_match_never(choice, index) == FALSE

last_match(choice, index) ==
    /\ InstructionEq(index, Len(trace) - 1)
    /\ Len(trace) > 2
    /\ T(Len(trace) - 1).ip = T(Len(trace) - 2).ip
    /\ addr(choice) = T(index).ip

jump_match(choice, instruction) == addr(choice) = instruction.ip

(*************************************************************************)
(* Tracer.repair_satness, repair_ip_at_syscall, post_execute             *)
(*************************************************************************)
repair_satness(old_state, new_state) ==
    IF ~satisfiable(new_state.cons)
    THEN [new_state EXCEPT !.cons = old_state.cons]
    ELSE new_state

repair_ip_at_syscall(first_ins, new_state) ==
    IF first_ins.mnemonic = "syscall"
    THEN SetReg(new_state, "ip_at_syscall", addr(new_state))
    ELSE new_state

post_execute(old_state, state, first_ins) ==
    repair_ip_at_syscall(first_ins, repair_satness(old_state, state))

\* Tracer.record_constraints_index (no caller in tracer.py)
record_constraints_index(index_map, old_state, new_state, index) ==
    index_map \cup {<<c, index>> : c \in new_state.cons \ old_state.cons}


(*************************************************************************)
(* Tracer.repair_func_resolver and Tracer.repair_exit_handler.  `sim` is *)
(* what the simulator answers during this call of execute(); a step is   *)
(* [exc, successors, unsat_successors]: exc names the exception raised.  *)
(*************************************************************************)
Step(e, succ) ==
    [exc |-> e, successors |-> succ.successors,
     unsat_successors |-> succ.unsat_successors]

NoSuccessors == [successors |-> <<>>, unsat_successors |-> <<>>]

\* the step request repeated at a redirect address
Restep(state, sim) ==
    IF sim.raises2 THEN Step("SimulatorError", NoSuccessors)
    ELSE Step("", Successors(state, Undecoded, sim.addrs2, FALSE))

repair_func_resolver(state, step, sim, dbg) ==
    IF sim.artifacts = "IFuncResolver"
    THEN IF Len(dbg) < 2 THEN Step("IndexError", NoSuccessors)
         ELSE IF sim.found THEN Restep(state, sim)
         ELSE Step("HaseError", NoSuccessors)
    ELSE step

repair_exit_handler(state, step, sim) ==
    IF sim.artifacts = "exit" /\ sim.has_handler
    THEN Restep(state, sim)
    ELSE step

(*************************************************************************)
(* Tracer.execute.  The result names the exception that left execute()   *)
(* (exc), the object `state` after the in-place repairs (old), the state *)
(* returned second (new), and whether the state returned first is that   *)
(* same second object (alias) instead of `state`.                        *)
(*************************************************************************)
Result(e, old, new, alias, unsat, path, rj, n) ==
    [exc |-> e, old |-> old, new |-> new, alias |-> alias, unsat |-> unsat,
     path |-> path, force_jump |-> rj.force_jump, force_type |-> rj.force_type,
     many |-> n > 2, cands |-> n]

\* force_ip without the assignment of the instruction pointer
force_ip_keep(state, instruction) == copy(state)

\* new_state = state.copy(); new_state.regs.ip = instruction.ip
force_ip(state, instruction) == SetReg(copy(state), "rip", instruction.ip)

\* the successor execute() synthesizes on force_jump
forced_state(state, force_type, instruction) ==
    LET new_state == copy(state)
        sp == new_state.regs["rsp"]
        moved ==
            IF force_type = "call"
            THEN [SetReg(new_state, "rsp", Plus(sp, 0 - WordSize))
                    EXCEPT !.mem = Store(new_state.mem, Plus(sp, 0 - WordSize),
                                         addr(state) + InsnSize)]
            ELSE IF force_type = "ret"
            THEN SetReg(new_state, "rsp", Plus(sp, WordSize))
            ELSE new_state
    IN  SetReg(moved, "rip", instruction.ip)

\* the loop over choices and the fallback after it
choose(state, choices, instruction, index, first_ins, rj) ==
    LET hits == {k \in 1..Len(choices) : \/ last_match(choices[k], index)
                                         \/ jump_match(choices[k], instruction)}
    IN  IF hits = {}
        THEN Result("", state, force_ip(state, instruction), FALSE, FALSE,
                    "fallback", rj, Len(choices))
        ELSE LET k == CHOOSE h \in hits : \A g \in hits : h <= g
                 choice == choices[k]
             IN  IF last_match(choice, index)
                 THEN Result("", state, choice, TRUE, FALSE, "selfloop", rj,
                             Len(choices))
                 ELSE Result("", state, post_execute(state, choice, first_ins),
                             FALSE, ~satisfiable(choice.cons), "matched", rj,
                             Len(choices))

execute(state0, previous_instruction, instruction, index, first_ins, sim, dbg) ==
    LET rj == repair_jump_ins(state0, previous_instruction, instruction, first_ins)
        state == repair_alloca_ins(rj.state, first_ins)
    IN  IF sim.raises
        THEN LET new_state == force_ip(state, instruction)
             IN  Result("", state, post_execute(state, new_state, first_ins), FALSE,
                        ~satisfiable(new_state.cons), "step_error", rj, 0)
        ELSE IF rj.force_jump
        THEN choose(state, <<forced_state(state, rj.force_type, instruction)>>,
                    instruction, index, first_ins, rj)
        ELSE LET step0 == Step("", Successors(state, first_ins, sim.addrs, sim.cond))
                 step1 == repair_func_resolver(state, step0, sim, dbg)
                 step == IF step1.exc # "" THEN step1
                         ELSE repair_exit_handler(state, step1, sim)
             IN  IF step.exc # ""
                 THEN Result(step.exc, state, state, FALSE, FALSE, "raised", rj, 0)
                 ELSE choose(state, step.successors \o step.unsat_successors,
                             instruction, index, first_ins, rj)


(*************************************************************************)
(* Tracer.run: sampling rule.                                            *)
(*************************************************************************)
Max(a, b) == IF a >= b THEN a ELSE b

\* interval rounding up
interval_ceil(n) == Max(1, (n + SampleDivisor - 1) \div SampleDivisor)

\* an interval that does not grow with the length of the trace
interval_one(n) == 1

\* interval = max(1, len(self.trace) // 200)
interval(n) == Max(1, n \div SampleDivisor)

\* the sampling test skipping the step that follows a stepping error
sampled_unless_error(c, n) ==
    /\ c % Max(1, n \div SampleDivisor) = 0 \/ (n - 1) - c < FinalSteps
    /\ last.path # "step_error"

\* cnt % interval == 0 or length - cnt < 15, with length = len(self.trace) - 1
sampled(c, n) == c % interval(n) = 0 \/ (n - 1) - c < FinalSteps

\* State(index, previous_instruction, instruction, state_before, state_after):
\* instructions by their position in the trace (-1: None), states by id (0: None)
\* State(...) losing its trace index
State_unindexed(index, p, i, before, after) ==
    [index |-> 0, previous_instruction |-> p, instruction |-> i,
     state_before |-> before, state_after |-> after]

State(index, p, i, before, after) ==
    [index |-> index, previous_instruction |-> p, instruction |-> i,
     state_before |-> before, state_after |-> after]

(*************************************************************************)
(* Initial state: Tracer.__init__ has built the start state at the first *)
(* trace address; run() has recorded it as major state 0.                *)
(*************************************************************************)
Events == [ip : Addr, iclass : IClass]

\* a trace the decoder can produce: one class per address
Traces(n) ==
    {t \in UNION {[1..k -> Events] : k \in 1..n} :
        \A i, j \in DOMAIN t : t[i].ip = t[j].ip => t[i].iclass = t[j].iclass}

\* memory of the binary image: the jump-table slot holds the highest address
ImageMem == [a \in {TableAddr} |-> MaxAddr]

\* `not v` on what the debugger reports for a register
absent(v) == v = NoneVal \/ v = 0

\* the replacement that leaves a reported 0 in place
or_sentinel_none_only(v) == IF v = NoneVal THEN Sentinel ELSE v

\* if not rbp: rbp = 0x7FFFFFFCF00 (and the same for rsp)
or_sentinel(v) == IF absent(v) THEN Sentinel ELSE v

\* the assignments of rsp and rbp to the start state; a register that is not
\* assigned keeps what the state factory gave it (symbolic in the model)
initial_stack(rsp, rbp, is_start_entry) ==
    IF is_start_entry
    THEN [rsp |-> or_sentinel(rbp) + WordSize, rbp |-> Sym]
    ELSE [rsp |-> or_sentinel(rsp), rbp |-> or_sentinel(rbp)]

\* the start state of a replay that begins inside the start function
start_state(start_address) ==
    [regs |-> [r \in RegNames |->
                  CASE r = "rip" -> start_address
                    [] r = "rsp" -> initial_stack(StartRsp, StartRbp, FALSE).rsp
                    [] r = "rbp" -> initial_stack(StartRsp, StartRbp, FALSE).rbp
                    [] OTHER -> Sym],
     mem |-> ImageMem,
     cons |-> {},
     natural |-> FALSE]

NoLast ==
    [path |-> "none", force_jump |-> FALSE, force_type |-> "", many |-> FALSE,
     stub |-> "", cands |-> NoneVal]

\* the number of candidates of a step is recorded in the runs that start with
\* a count, and in no other
counted(n) == IF last.cands = NoneVal THEN NoneVal ELSE n

RunStart(t) ==
    /\ trace = t
    /\ code = [a \in Addr |-> Undecoded]
    /\ pc = "run"
    /\ exc = ""
    /\ cnt = 0
    /\ executed = 0
    /\ heap = <<start_state(t[1].ip)>>
    /\ simstate = 1
    /\ major_states = <<State(0, -1, 0, 0, 1)>>
    /\ debug_state = <<>>
    /\ debug_sat = 0
    /\ debug_unsat = 0
    /\ constraints_index = {}
    /\ coredump = [read |-> FALSE, rip |-> 0, rsp |-> 0]

InitRun(t) ==
    /\ RunStart(t)
    /\ last = NoLast

\* the two readings of Instruction == differ only on a trace that has an event
\* equal in value to its last one
EqReadings(t) ==
    IF \E i \in 1..(Len(t) - 1) : t[i] = t[Len(t)] THEN BOOLEAN ELSE {FALSE}

\* the debugger session before CoredumpGDB.__init__
GdbIdle ==
    /\ gdb_stdin = <<>>
    /\ gdb_stdout = <<>>
    /\ gdb_call = [active |-> FALSE, req |-> 0, resp |-> <<>>]
    /\ gdb_result = [req |-> 0, resp |-> <<>>]
    /\ gdb_next = 1

\* what a call on the loader returned
Ret(op, ip, found, e, main, libs, opts) ==
    [op |-> op, ip |-> ip, found |-> found, exc |-> e, main_opts |-> main,
     force_load_libs |-> libs, lib_opts |-> opts]

NoRet == Ret("", 0, <<>>, "", -1, <<>>, <<>>)

\* no Loader constructed
LoaderIdle ==
    /\ mappings = <<>>
    /\ files = <<>>
    /\ shared_objects = <<>>
    /\ loader_ret = NoRet

\* Tracer.__init__ not modelled in this run
InitIdle ==
    /\ stack_setup = <<>>
    /\ raw_trace = <<>>
    /\ elf_symbols = <<>>
    /\ trimming = <<>>

\* ptconfig not started
PtIdle ==
    /\ pt_options = <<>>
    /\ text_config = <<>>
    /\ hex_config = <<>>
    /\ pt_ret = <<>>

ServicesIdle == GdbIdle /\ LoaderIdle /\ InitIdle /\ PtIdle

Init ==
    \E t \in Traces(MaxTrace) : \E b \in EqReadings(t) :
        /\ eq_by_value = b
        /\ InitRun(t)
        /\ ServicesIdle

(*************************************************************************)
(* One iteration of the loop of run().                                   *)
(*************************************************************************)
\* The driver reads a candidate's address only to compare it with the expected
\* destination: a candidate is at that address or at another one.
elsewhere(a) == (a % MaxAddr) + 1

AddrSeqs(n, instruction) ==
    UNION {[1..k -> {instruction.ip, elsewhere(instruction.ip)}] : k \in 0..n}

\* capstone's decoding of the instruction at address a
Decode(a, previous_instruction) ==
    IF code[a] # Undecoded THEN {code[a]}
    ELSE {i \in Insns : a = previous_instruction.ip
                            => ClassOf(i) = previous_instruction.iclass}

\* self.debug_state.append(state) on a deque(maxlen=5)
deque_append(d, x) ==
    IF Len(d) < DebugStateLen THEN Append(d, x) ELSE Append(Tail(d), x)

Sim(raises, artifacts, addrs, cond, found, has_handler, raises2, addrs2) ==
    [raises |-> raises, artifacts |-> artifacts, addrs |-> addrs, cond |-> cond,
     found |-> found, has_handler |-> has_handler, raises2 |-> raises2,
     addrs2 |-> addrs2]

\* whether the step given to repair_func_resolver is the resolver stub, and
\* what find_function(self.debug_state[-2].addr) has to work on
on_resolver(sim, dbg) ==
    IF sim.artifacts # "IFuncResolver" THEN ""
    ELSE IF Len(dbg) < 2 THEN "no_history"
    ELSE IF sim.found THEN "found"
    ELSE "unfound"

Edge(sim) ==
    LET c == cnt + 1
        previous_instruction == T(cnt)
        instruction == T(c)
        state0 == heap[simstate]
        newid == Len(heap) + 1
        dbg == deque_append(debug_state, simstate)
    IN  /\ pc = "run"
        /\ c < Len(trace)
        /\ valid_address(previous_instruction.ip)
        /\ valid_address(instruction.ip)
        /\ \E first_ins \in Decode(addr(state0), previous_instruction) :
              \E r \in {execute(state0, previous_instruction, instruction, c,
                               first_ins, sim, dbg)} :
              LET heap1 == [heap EXCEPT ![simstate] = r.old]
                  old_simstate == IF r.alias THEN newid ELSE simstate
              IN  /\ code' = [code EXCEPT ![addr(state0)] = first_ins]
                  /\ debug_state' = dbg
                  /\ executed' = executed + 1
                  /\ cnt' = c
                  /\ last' = [path |-> r.path, force_jump |-> r.force_jump,
                              force_type |-> r.force_type, many |-> r.many,
                              cands |-> counted(r.cands),
                              stub |-> IF r.path = "step_error" \/ r.force_jump
                                       THEN ""
                                       ELSE on_resolver(sim, dbg)]
                  /\ IF r.exc # ""
                     THEN /\ pc' = "raised"
                          /\ exc' = r.exc
                          /\ heap' = heap1
                          /\ UNCHANGED <<simstate, major_states, debug_sat,
                                         debug_unsat>>
                     ELSE /\ heap' = Append(heap1, r.new)
                          /\ simstate' = newid
                          /\ major_states' =
                                IF sampled(c, Len(trace))
                                THEN Append(major_states,
                                            State(c, cnt, c, old_simstate, newid))
                                ELSE major_states
                          /\ IF r.unsat /\ debug_unsat = 0
                             THEN debug_sat' = simstate /\ debug_unsat' = newid
                             ELSE UNCHANGED <<debug_sat, debug_unsat>>
                          /\ UNCHANGED <<pc, exc>>
        /\ UNCHANGED <<trace, eq_by_value, constraints_index, coredump>>
        /\ UNCHANGED service_vars

\* the assertion on the edge's addresses fails
InvalidAddress ==
    /\ pc = "run"
    /\ cnt + 1 < Len(trace)
    /\ ~(valid_address(T(cnt).ip) /\ valid_address(T(cnt + 1).ip))
    /\ cnt' = cnt + 1
    /\ pc' = "raised"
    /\ exc' = "AssertionError"
    /\ UNCHANGED <<trace, eq_by_value, code, executed, heap, simstate, major_states,
                   debug_state, debug_sat, debug_unsat, constraints_index, coredump,
                   last>>
    /\ UNCHANGED service_vars

\* the simulator raises on the step request of execute()
StepRaises ==
    /\ cnt + 1 < Len(trace)
    /\ Edge(Sim(TRUE, "", <<>>, FALSE, FALSE, FALSE, FALSE, <<>>))

\* the simulator returns the candidates of an ordinary instruction
StepSuccessors ==
    /\ cnt + 1 < Len(trace)
    /\ \E addrs \in AddrSeqs(MaxCand, T(cnt + 1)), cond \in BOOLEAN :
          Edge(Sim(FALSE, "", addrs, cond, FALSE, FALSE, FALSE, <<>>))

\* the step lands on the lazy-binding resolver stub
StepResolver ==
    /\ cnt + 1 < Len(trace)
    /\ \E found, raises2 \in BOOLEAN, addrs2 \in AddrSeqs(1, T(cnt + 1)) :
          Edge(Sim(FALSE, "IFuncResolver", <<>>, FALSE, found, FALSE, raises2, addrs2))

\* the step lands on the summarized exit routine
StepExit ==
    /\ cnt + 1 < Len(trace)
    /\ \E has_handler, raises2 \in BOOLEAN, addrs \in AddrSeqs(1, T(cnt + 1)) :
          Edge(Sim(FALSE, "exit", addrs, FALSE, FALSE, has_handler, raises2, addrs))


(*************************************************************************)
(* Tracer.constrain_registers on the last major state, then return.      *)
(*************************************************************************)
\* self.coredump.registers[name]
core_reg(core, name) ==
    CASE name = "rip" -> core.rip
      [] name = "rsp" -> core.rsp
      [] OTHER -> CoreGpr

\* constrain_registers raising on a final state at another address
constrain_registers_strict(state, core) ==
    IF state.regs["rip"] = core_reg(core, "rip") /\ state.regs["rsp"] = core_reg(core, "rsp")
    THEN [exc |-> "",
          state |-> [state EXCEPT !.regs =
                       [r \in RegNames |->
                           IF r \in CoredumpRegs THEN core_reg(core, r)
                           ELSE state.regs[r]]]]
    ELSE [exc |-> "AssertionError", state |-> state]

\* State.registers[name] reads and writes the registers of state_after
constrain_registers(state, core) ==
    IF state.regs["rip"] = core_reg(core, "rip")
    THEN IF state.regs["rsp"] # core_reg(core, "rsp")
         THEN [exc |-> "AssertionError", state |-> state]
         ELSE [exc |-> "",
               state |-> [state EXCEPT !.regs =
                            [r \in RegNames |->
                                IF r \in CoredumpRegs THEN core_reg(core, r)
                                ELSE state.regs[r]]]]
    ELSE [exc |-> "", state |-> state]

CoreRsps == {StartRsp, StartRsp + WordSize}

Finalize ==
    /\ pc = "run"
    /\ cnt = Len(trace) - 1
    /\ \E rip \in 1..MaxAddr, rsp \in CoreRsps :
          LET core == [read |-> TRUE, rip |-> rip, rsp |-> rsp]
              final == major_states[Len(major_states)].state_after
              r == constrain_registers(heap[final], core)
          IN  /\ coredump' = core
              /\ heap' = [heap EXCEPT ![final] = r.state]
              /\ pc' = IF r.exc = "" THEN "done" ELSE "raised"
              /\ exc' = r.exc
    /\ UNCHANGED <<trace, eq_by_value, code, cnt, executed, simstate, major_states,
                   debug_state, debug_sat, debug_unsat, constraints_index, last>>
    /\ UNCHANGED service_vars

Next ==
    \/ InvalidAddress
    \/ StepRaises
    \/ StepSuccessors
    \/ StepResolver
    \/ StepExit
    \/ Finalize

Spec == Init /\ [][Next]_vars

\* the replay with the number of candidates of each step recorded
InitSelect ==
    \E t \in Traces(MaxTrace) : \E b \in EqReadings(t) :
        /\ eq_by_value = b
        /\ RunStart(t)
        /\ last = [NoLast EXCEPT !.cands = 0]
        /\ ServicesIdle

SpecSelect == InitSelect /\ [][Next]_vars

\* run() is one sequential loop: an iteration that is enabled is taken
SpecLive == Spec /\ WF_vars(Next)


(*************************************************************************)
(* The loop of run() over long traces, with the simulator states left    *)
(* out: what execute() returns has no part in cnt, interval or the       *)
(* sampling test.  State ids are the ones a run without aliasing gives.  *)
(*************************************************************************)
LongTrace(n) == [k \in 1..n |-> [ip |-> 1, iclass |-> "ptic_other"]]

InitSampling ==
    \E n \in 1..MaxLen :
        /\ eq_by_value = FALSE
        /\ InitRun(LongTrace(n))
        /\ ServicesIdle

SampleStep ==
    LET c == cnt + 1
    IN  /\ pc = "run"
        /\ c < Len(trace)
        /\ valid_address(T(cnt).ip) /\ valid_address(T(c).ip)
        /\ cnt' = c
        /\ executed' = executed + 1
        /\ simstate' = c + 1
        /\ major_states' = IF sampled(c, Len(trace))
                           THEN Append(major_states, State(c, cnt, c, c, c + 1))
                           ELSE major_states
        /\ UNCHANGED <<trace, eq_by_value, code, pc, exc, heap, debug_state,
                       debug_sat, debug_unsat, constraints_index, coredump, last>>
        /\ UNCHANGED service_vars

SampleReturn ==
    /\ pc = "run"
    /\ cnt = Len(trace) - 1
    /\ pc' = "done"
    /\ UNCHANGED <<trace, eq_by_value, code, exc, cnt, executed, heap, simstate,
                   major_states, debug_state, debug_sat, debug_unsat,
                   constraints_index, coredump, last>>
    /\ UNCHANGED service_vars

NextSampling == SampleStep \/ SampleReturn

SpecSampling == InitSampling /\ [][NextSampling]_vars

(*************************************************************************)
(* The loop of run() over long traces with the outcome of each call of   *)
(* execute() drawn from its return statements: the forced copy after a   *)
(* stepping error, a candidate selected by jump_match, a candidate       *)
(* selected by last_match (returned as old and new state alike, on the   *)
(* last step), the forced copy of the fallback, or an exception.         *)
(*************************************************************************)
InitOutcomes ==
    \E n \in MinLen..MaxLen :
        /\ eq_by_value = FALSE
        /\ InitRun(LongTrace(n))
        /\ ServicesIdle

OutcomeStep ==
    LET c == cnt + 1
    IN  /\ pc = "run"
        /\ c < Len(trace)
        /\ valid_address(T(cnt).ip) /\ valid_address(T(c).ip)
        /\ \E path \in {"step_error", "matched", "selfloop", "fallback"} :
              /\ path = "selfloop" => c = Len(trace) - 1
              /\ last' = [NoLast EXCEPT !.path = path]
              /\ major_states' =
                    IF sampled(c, Len(trace))
                    THEN Append(major_states,
                                State(c, cnt, c,
                                      IF path = "selfloop" THEN c + 1 ELSE c, c + 1))
                    ELSE major_states
        /\ cnt' = c
        /\ executed' = executed + 1
        /\ simstate' = c + 1
        /\ UNCHANGED <<trace, eq_by_value, code, pc, exc, heap, debug_state,
                       debug_sat, debug_unsat, constraints_index, coredump>>
        /\ UNCHANGED service_vars

\* execute() raises: the repeated step request, the unresolved redirect
OutcomeRaise ==
    /\ pc = "run"
    /\ cnt + 1 < Len(trace)
    /\ cnt' = cnt + 1
    /\ executed' = executed + 1
    /\ pc' = "raised"
    /\ exc' \in {"SimulatorError", "HaseError", "IndexError"}
    /\ last' = [NoLast EXCEPT !.path = "raised"]
    /\ UNCHANGED <<trace, eq_by_value, code, heap, simstate, major_states,
                   debug_state, debug_sat, debug_unsat, constraints_index, coredump>>
    /\ UNCHANGED service_vars

NextOutcomes == OutcomeStep \/ OutcomeRaise \/ SampleReturn

SpecOutcomes == InitOutcomes /\ [][NextOutcomes]_vars

\* the replay driver has not started
TracerIdle ==
    /\ eq_by_value = FALSE
    /\ InitRun(LongTrace(1))

(*************************************************************************)
(* Tracer.__init__: the stack and base pointer of the start state.       *)
(*************************************************************************)
StackVals == {0} \cup {StartRsp + WordSize * k : k \in 0..MaxFrames}

\* CoredumpAnalyzer.stack_base(name): (None, None) when no frame of the
\* backtrace is in `name`, else get_stack_base's two get_reg values, each 0
\* when gdb's answer could not be read
StackAnswers == {<<NoneVal, NoneVal>>} \cup (StackVals \X StackVals)

Setup(ans, entry, done, rsp, rbp) ==
    [rsp_in |-> ans[1], rbp_in |-> ans[2], is_start_entry |-> entry,
     done |-> done, rsp |-> rsp, rbp |-> rbp]

\* the state factory has built self.start_state; stack_base has answered
InitSetup ==
    /\ TracerIdle
    /\ GdbIdle
    /\ LoaderIdle
    /\ PtIdle
    /\ raw_trace = <<>>
    /\ elf_symbols = <<>>
    /\ trimming = <<>>
    /\ \E ans \in StackAnswers, entry \in BOOLEAN :
          stack_setup = Setup(ans, entry, FALSE, Sym, Sym)

SetupStack ==
    /\ ~stack_setup.done
    /\ LET regs == initial_stack(stack_setup.rsp_in, stack_setup.rbp_in,
                                 stack_setup.is_start_entry)
       IN  stack_setup' = [stack_setup EXCEPT !.done = TRUE, !.rsp = regs.rsp,
                                              !.rbp = regs.rbp]
    /\ UNCHANGED <<raw_trace, elf_symbols, trimming, tracer_vars, gdb_vars, loader_vars,
                   pt_vars>>

NextSetup == SetupStack

SpecSetup == InitSetup /\ [][NextSetup]_vars

(*************************************************************************)
(* Tracer.__init__: the loop that trims the raw trace at _start or main. *)
(* An event carries its address and its identity (its position in the    *)
(* list the decoder produced).                                           *)
(*************************************************************************)
RawTraces ==
    UNION {{[k \in 1..n |-> [ip |-> ips[k], id |-> k]] : ips \in [1..n -> 1..MaxRawAddr]}
           : n \in 0..MaxRaw}

\* self.elf.symbols.get(name): an address, or None
Symbols == [start : {NoneVal} \cup 1..MaxRawAddr, main : {NoneVal} \cup 1..MaxRawAddr]

\* event.ip == start or event.ip == main
is_entry(event, symbols) == event.ip = symbols.start \/ event.ip = symbols.main

\* a loop body that trims at the first match only
trim_first(trace_arg, self_trace, idx, symbols) ==
    IF is_entry(trace_arg[idx + 1], symbols) /\ self_trace = trace_arg
    THEN SubSeq(trace_arg, idx + 1, Len(trace_arg))
    ELSE self_trace

\* one iteration: if ...: self.trace = trace[idx:]   (idx counts from 0)
trim(trace_arg, self_trace, idx, symbols) ==
    IF is_entry(trace_arg[idx + 1], symbols)
    THEN SubSeq(trace_arg, idx + 1, Len(trace_arg))
    ELSE self_trace

\* self.trace = trace; the symbols are looked up; the loop is about to start
InitTrim ==
    /\ TracerIdle
    /\ GdbIdle
    /\ LoaderIdle
    /\ PtIdle
    /\ stack_setup = <<>>
    /\ raw_trace \in RawTraces
    /\ elf_symbols \in Symbols
    /\ trimming = [trace |-> raw_trace, idx |-> 0]

TrimIterate ==
    /\ trimming.idx < Len(raw_trace)
    /\ trimming' = [trace |-> trim(raw_trace, trimming.trace, trimming.idx, elf_symbols),
                    idx |-> trimming.idx + 1]
    /\ UNCHANGED <<stack_setup, raw_trace, elf_symbols, tracer_vars, gdb_vars,
                   loader_vars, pt_vars>>

\* an iteration on an event at _start or main
TrimCut == is_entry(raw_trace[trimming.idx + 1], elf_symbols) /\ TrimIterate

\* an iteration on any other event
TrimKeep == ~is_entry(raw_trace[trimming.idx + 1], elf_symbols) /\ TrimIterate

NextTrim ==
    /\ trimming.idx < Len(raw_trace)
    /\ TrimCut \/ TrimKeep

SpecTrim == InitTrim /\ [][NextTrim]_vars

(*************************************************************************)
(* bin/ptconfig.py.  An option is named by its bit range <<begin, end>>; *)
(* a text config maps the options it lists to a value, NoneVal for an    *)
(* entry without "="; a hex config is the sequence of hex digits after   *)
(* "0x", most significant first.                                         *)
(*************************************************************************)
HexBase == 16

RECURSIVE Pow2(_)
Pow2(k) == IF k = 0 THEN 1 ELSE 2 * Pow2(k - 1)

Ranges == {loc \in (0..MaxBit) \X (0..MaxBit) : loc[1] <= loc[2]}

\* the format directory: options over bit ranges that do not overlap
Layouts ==
    {l \in SUBSET Ranges :
        /\ l # {}
        /\ \A a, b \in l : a # b => (a[2] < b[1] \/ b[2] < a[1])}

width(loc) == loc[2] - loc[1] + 1

\* the values that fit an option's bit range, and NoneVal for an entry
\* without "="
Fitting(loc) == {NoneVal} \cup 0..(Pow2(width(loc)) - 1)

\* the text configs that list exactly the options `listed`
RECURSIVE TextsOn(_)
TextsOn(listed) ==
    IF listed = {} THEN {<<>>}
    ELSE LET loc == CHOOSE l \in listed : TRUE
         IN  {t @@ (loc :> v) : t \in TextsOn(listed \ {loc}), v \in Fitting(loc)}

\* the text configs that give each listed option a value fitting its range
Texts(layout) == UNION {TextsOn(listed) : listed \in SUBSET layout \ {{}}}

\* hex(bits) without the "0x"
RECURSIVE hex(_)
hex(n) == IF n < HexBase THEN <<n>> ELSE hex(n \div HexBase) \o <<n % HexBase>>

\* int(hex_config, base=16)
RECURSIVE int16(_)
int16(digits) ==
    IF digits = <<>> THEN 0
    ELSE HexBase * int16(SubSeq(digits, 1, Len(digits) - 1)) + digits[Len(digits)]

\* bin(n)[:1:-1]: the binary digits of n, bit 0 first
RECURSIVE bin_reversed(_)
bin_reversed(n) == IF n < 2 THEN <<n>> ELSE <<n % 2>> \o bin_reversed(n \div 2)

\* bits[begin:end+1], the slice clipped to the string
slice(bits, begin, end) ==
    SubSeq(bits, begin + 1, IF end + 1 < Len(bits) THEN end + 1 ELSE Len(bits))

\* int('0b' + digits, base=2) on a string that has digits: the first is the
\* most significant
RECURSIVE int2(_)
int2(digits) ==
    IF digits = <<>> THEN 0
    ELSE 2 * int2(SubSeq(digits, 1, Len(digits) - 1)) + digits[Len(digits)]

\* text to hex: bits += int(val) << loc[0] for every entry, val 1 without "="
RECURSIVE text_to_bits(_, _)
text_to_bits(text, listed) ==
    IF listed = {} THEN 0
    ELSE LET loc == CHOOSE l \in listed : TRUE
             val == IF text[loc] = NoneVal THEN 1 ELSE text[loc]
         IN  val * Pow2(loc[1]) + text_to_bits(text, listed \ {loc})

\* hex to text: the value of each option; int() raises ValueError on "0b"
hex_to_text(options, hex_digits) ==
    LET bits == bin_reversed(int16(hex_digits))
    IN  IF \E loc \in options : slice(bits, loc[1], loc[2]) = <<>>
        THEN [exc |-> "ValueError", vals |-> <<>>]
        ELSE [exc |-> "",
              vals |-> [loc \in options |-> int2(slice(bits, loc[1], loc[2]))]]

PtRet(op, e, vals) == [op |-> op, exc |-> e, vals |-> vals]

\* ptconfig is about to be run with --config text_config
InitPt ==
    /\ TracerIdle
    /\ GdbIdle
    /\ LoaderIdle
    /\ InitIdle
    /\ pt_options \in Layouts
    /\ text_config \in Texts(pt_options)
    /\ hex_config = <<>>
    /\ pt_ret = PtRet("", "", <<>>)

\* ptconfig.py --config text_config
TextToHex ==
    /\ hex_config = <<>>
    /\ hex_config' = hex(text_to_bits(text_config, DOMAIN text_config))
    /\ pt_ret' = PtRet("text_to_hex", "", <<>>)
    /\ UNCHANGED <<pt_options, text_config, tracer_vars, gdb_vars, loader_vars,
                   init_vars>>

\* ptconfig.py --hex-config hex_config, on the value the first run printed
HexToText ==
    /\ hex_config # <<>>
    /\ pt_ret.op = "text_to_hex"
    /\ LET r == hex_to_text(pt_options, hex_config)
       IN  pt_ret' = PtRet("hex_to_text", r.exc, r.vals)
    /\ UNCHANGED <<pt_options, text_config, hex_config, tracer_vars, gdb_vars,
                   loader_vars, init_vars>>

NextPt == TextToHex \/ HexToText

SpecPt == InitPt /\ [][NextPt]_vars

(*************************************************************************)
(* The debugger session: CoredumpGDB.__init__, write_request and         *)
(* get_response on one side, the gdb process on the other.               *)
(*************************************************************************)
\* GdbController(...) has started gdb, which has its banner to print;
\* __init__ is in its first get_response()
InitGdb ==
    /\ TracerIdle
    /\ \E n \in 1..MaxRecs : gdb_stdin = <<[req |-> 0, left |-> n]>>
    /\ gdb_stdout = <<>>
    /\ gdb_call = [active |-> TRUE, req |-> 0, resp |-> <<>>]
    /\ gdb_result = [req |-> 0, resp |-> <<>>]
    /\ gdb_next = 1
    /\ LoaderIdle
    /\ InitIdle
    /\ PtIdle

\* write_request: self.gdb.write(req, timeout_sec=1, read_response=False), then
\* get_response() starts with resp = []
GdbWrite ==
    /\ ~gdb_call.active
    /\ gdb_next <= MaxReq
    /\ \E n \in 1..MaxRecs :
          gdb_stdin' = Append(gdb_stdin, [req |-> gdb_next, left |-> n])
    /\ gdb_call' = [active |-> TRUE, req |-> gdb_next, resp |-> <<>>]
    /\ gdb_next' = gdb_next + 1
    /\ UNCHANGED <<gdb_stdout, gdb_result, tracer_vars, loader_vars, init_vars, pt_vars>>

\* get_response: resp += self.gdb.get_gdb_response(), which returns the
\* records gdb has printed so far
GdbRead ==
    /\ gdb_call.active
    /\ gdb_stdout # <<>>
    /\ gdb_call' = [gdb_call EXCEPT !.resp = gdb_call.resp \o gdb_stdout]
    /\ gdb_stdout' = <<>>
    /\ UNCHANGED <<gdb_stdin, gdb_result, gdb_next, tracer_vars, loader_vars, init_vars, pt_vars>>

\* get_response: get_gdb_response() finds no output within its timeout and
\* raises; the loop breaks and resp is returned (to write_request's caller,
\* or to __init__, which drops it)
GdbTimeout ==
    /\ gdb_call.active
    /\ gdb_stdout = <<>>
    /\ gdb_call' = [active |-> FALSE, req |-> 0, resp |-> <<>>]
    /\ gdb_result' = IF gdb_call.req > 0
                      THEN [req |-> gdb_call.req, resp |-> gdb_call.resp]
                      ELSE gdb_result
    /\ UNCHANGED <<gdb_stdin, gdb_stdout, gdb_next, tracer_vars, loader_vars, init_vars, pt_vars>>

\* the gdb process prints one record of its answer to the oldest request
GdbEmit ==
    /\ gdb_stdin # <<>>
    /\ gdb_stdout' = Append(gdb_stdout, Head(gdb_stdin).req)
    /\ gdb_stdin' = IF Head(gdb_stdin).left = 1 THEN Tail(gdb_stdin)
                     ELSE [gdb_stdin EXCEPT ![1].left = @ - 1]
    /\ UNCHANGED <<gdb_call, gdb_result, gdb_next, tracer_vars, loader_vars, init_vars, pt_vars>>

NextGdb == GdbWrite \/ GdbRead \/ GdbTimeout \/ GdbEmit

SpecGdb == InitGdb /\ [][NextGdb]_vars

(*************************************************************************)
(* The loader: filter_mappings, Loader.find_mapping, Loader.load_options *)
(* (src/hase/loader.py) and build_load_options (tracer.py).              *)
(*************************************************************************)
\* paths of mappings: anonymous, relative, and two absolute ones
Paths == {"", "lib.so", "/bin/a", "/lib/b"}

\* path.startswith("/")
absolute(path) == path \in {"/bin/a", "/lib/b"}

AbsPaths == {p \in Paths : absolute(p)}

\* a file begins with ELF_MAGIC, begins with something else, or does not exist
FileKinds == {"elf", "other", "missing"}

\* the k-th entry of a table: regions follow each other
Mapping(k, path) ==
    [path |-> path, start |-> k * RegionSize, stop |-> (k + 1) * RegionSize,
     name |-> <<path>>]

Tables ==
    UNION {{[k \in 1..n |-> Mapping(k, ps[k])] : ps \in [1..n -> Paths]} :
              n \in 1..MaxMaps}

\* filter_mappings(mappings, sysroot); fs is the filesystem under sysroot
filter_mappings(ms, fs) ==
    LET kept == SelectSeq(ms, LAMBDA m : absolute(m.path) /\ fs[m.path] = "elf")
    IN  [i \in 1..Len(kept) |-> [kept[i] EXCEPT !.name = <<"sysroot", kept[i].path>>]]

\* Loader.find_mapping: <<m>> for a mapping m, <<>> for None
find_mapping(objs, ip) ==
    LET hits == {i \in 1..Len(objs) : objs[i].start <= ip /\ ip < objs[i].stop}
    IN  IF hits = {} THEN <<>>
        ELSE <<objs[CHOOSE i \in hits : \A j \in hits : i <= j]>>

\* the loop `for m in ms[1:]` of both functions over the entries, at the
\* positions `pass`, that reach the registration: an entry is registered unless
\* its path already is
RegisteredAt(ms, pass) ==
    {i \in pass \ {1} : \A j \in pass \ {1} : j < i => ms[j].path # ms[i].path}

SeqOfSet(ms, idx) ==
    LET sel == SelectSeq([i \in 1..Len(ms) |-> i], LAMBDA i : i \in idx)
    IN  [k \in 1..Len(sel) |-> ms[sel[k]].path]

LibOpts(ms, idx) ==
    [p \in {ms[i].path : i \in idx} |->
        ms[CHOOSE i \in idx : ms[i].path = p].start]

\* Loader.load_options
load_options(objs) ==
    IF Len(objs) = 0
    THEN Ret("load_options", 0, <<>>, "IndexError", -1, <<>>, <<>>)
    ELSE LET idx == RegisteredAt(objs, 1..Len(objs))
         IN  Ret("load_options", 0, <<>>, "", objs[1].start,
                 SeqOfSet(objs, idx), LibOpts(objs, idx))

\* build_load_options(mappings); fs is the filesystem open() reads
build_load_options(ms, fs) ==
    IF Len(ms) = 0
    THEN Ret("build_load_options", 0, <<>>, "IndexError", -1, <<>>, <<>>)
    ELSE IF \E i \in 2..Len(ms) : absolute(ms[i].path) /\ fs[ms[i].path] = "missing"
    THEN Ret("build_load_options", 0, <<>>, "FileNotFoundError", -1, <<>>, <<>>)
    ELSE LET idx == RegisteredAt(ms, {i \in 1..Len(ms) : /\ absolute(ms[i].path)
                                                        /\ fs[ms[i].path] = "elf"})
         IN  Ret("build_load_options", 0, <<>>, "", ms[1].start,
                 SeqOfSet(ms, idx), LibOpts(ms, idx))

\* Loader(mappings, sysroot) has been constructed
InitLoader ==
    /\ TracerIdle
    /\ GdbIdle
    /\ InitIdle
    /\ PtIdle
    /\ mappings \in Tables
    /\ files \in [AbsPaths -> FileKinds]
    /\ shared_objects = filter_mappings(mappings, files)
    /\ loader_ret = NoRet

FindMapping ==
    /\ \E ip \in 0..((MaxMaps + 2) * RegionSize) :
          loader_ret' = [NoRet EXCEPT !.op = "find_mapping", !.ip = ip,
                                      !.found = find_mapping(shared_objects, ip)]
    /\ UNCHANGED <<mappings, files, shared_objects, tracer_vars, gdb_vars, init_vars, pt_vars>>

LoadOptions ==
    /\ loader_ret' = load_options(shared_objects)
    /\ UNCHANGED <<mappings, files, shared_objects, tracer_vars, gdb_vars, init_vars, pt_vars>>

BuildLoadOptions ==
    /\ loader_ret' = build_load_options(mappings, files)
    /\ UNCHANGED <<mappings, files, shared_objects, tracer_vars, gdb_vars, init_vars, pt_vars>>

NextLoader == FindMapping \/ LoadOptions \/ BuildLoadOptions

SpecLoader == InitLoader /\ [][NextLoader]_vars

(*************************************************************************)
(* Properties.                                                           *)
(*************************************************************************)
\* the state given to the last call of execute()
prior == debug_state[Len(debug_state)]

\* the instruction the last call of execute() decoded
prior_insn == code[addr(heap[prior])]

\* the last call of execute() returned (it did not raise)
returned == executed > 0 /\ last.path \notin {"none", "raised"}

\* C1: replay fidelity.  The state run() holds as current after step cnt, and
\* the state_after of every recorded major state, is at the trace's address of
\* that step, whichever path execute() returned on.
C1_ReplayFidelity ==
    /\ (pc = "run" \/ pc = "done" \/ coredump.read)
          => addr(heap[simstate]) = T(cnt).ip
    /\ \A i \in 1..Len(major_states) :
          addr(heap[major_states[i].state_after]) = T(major_states[i].index).ip

C1_Witness ==
    /\ pc = "done"
    /\ cnt = 2
    /\ last.path = "fallback"
    /\ heap[2].natural

\* C2: a return whose saved return address is concrete and is the expected
\* destination is not forced: the next state is a natural successor of the
\* simulator, with the return address popped.
RetCorrect ==
    /\ returned
    /\ pc = "run"
    /\ last.path # "step_error"
    /\ prior_insn.mnemonic = "ret"
    /\ ~symbolic(heap[prior].regs["rsp"])
    /\ Load(heap[prior].mem, heap[prior].regs["rsp"]) = T(cnt).ip

C2_NaturalReturn ==
    RetCorrect =>
        /\ ~last.force_jump
        /\ last.path \in {"matched", "selfloop"} =>
              /\ heap[simstate].natural
              /\ heap[simstate].regs["rsp"] = heap[prior].regs["rsp"] + WordSize


\* the trace indices of the recorded major states
recorded == {major_states[i].index : i \in 1..Len(major_states)}

\* ceil(n / 200)
CeilInterval(n) == (n + SampleDivisor - 1) \div SampleDivisor

C4_ManyCandidatesFatal ==
    (executed > 0 /\ last.many) => (pc = "raised" /\ last.path = "raised")

\* C5: after step cnt, every constraint of the state after the step that the
\* state before it did not have is a key of constraints_index, mapped to cnt.
C5_ConstraintProvenance ==
    (returned /\ pc = "run") =>
        \A c \in heap[simstate].cons \ heap[prior].cons :
            <<c, cnt>> \in constraints_index

\* C6: the current state of run() is satisfiable after every step (the start
\* state is).
C6_CurrentSatisfiable ==
    (pc = "run" \/ pc = "done") => satisfiable(heap[simstate].cons)

\* C7: an error raised by a step request of the simulator, be it the first
\* request of execute() or the one repeated at a redirect address, never leaves
\* run().
C7_StepErrorAbsorbed == exc # "SimulatorError"

\* C8: an edge with an address outside every loaded object is never given to
\* execute() and the run returns nothing; a run that returns has given every
\* edge to execute().
BadEdge(k) == T(k - 1).ip \notin LoadedAddrs \/ T(k).ip \notin LoadedAddrs

C8_InvalidAddressFatal ==
    /\ \A k \in 1..(Len(trace) - 1) : BadEdge(k) => (executed < k /\ pc # "done")
    /\ pc = "done" => executed = Len(trace) - 1

C8_Witness ==
    /\ pc = "raised"
    /\ exc = "AssertionError"
    /\ ~coredump.read
    /\ executed = 1
    /\ cnt = 2
    /\ BadEdge(2)

\* C9: executing an edge leaves the registers and the memory of the states of
\* every major state recorded so far as they are.
Content(id) == IF id = 0 THEN <<>> ELSE <<heap[id].regs, heap[id].mem>>

C9_MajorStatesReadOnly ==
    [][cnt' # cnt =>
          \A i \in 1..Len(major_states) :
              /\ Content(major_states[i].state_after)' = Content(major_states[i].state_after)
              /\ Content(major_states[i].state_before)' = Content(major_states[i].state_before)]_vars

\* C10: once constrain_registers has run on a final state at the coredump's
\* instruction pointer, the state holds the coredump's value in each of its 18
\* registers, and rsp and rbp are as before; on a final state at another
\* address no register is written.
final_state == heap[major_states[Len(major_states)].state_after]

C10_FinalizationFrame ==
    [][(coredump'.read /\ ~coredump.read) =>
          IF addr(final_state) = coredump'.rip
          THEN /\ \A r \in CoredumpRegs : final_state'.regs[r] = core_reg(coredump', r)
               /\ \A r \in RegNames \ CoredumpRegs :
                     final_state'.regs[r] = final_state.regs[r]
          ELSE final_state'.regs = final_state.regs]_vars

\* the major states hold exactly the sampled indices of the whole trace
full_history ==
    recorded = {c \in 0..(Len(trace) - 1) : sampled(c, Len(trace))}

\* C11: when the coredump's instruction pointer is not the one of the final
\* state, constrain_registers raises nothing: run() returns, and the history
\* it returns holds the major state of every sampled index.
rip_mismatch == coredump.read /\ coredump.rip # addr(final_state)

C11_RipMismatchReturns ==
    rip_mismatch => (pc = "done" /\ exc = "" /\ full_history)

C11_Witness ==
    /\ rip_mismatch
    /\ pc = "done"
    /\ Len(major_states) = 3
    /\ heap[simstate].regs["rsp"] # coredump.rsp

\* C12: whatever the registers of the final state and of the coredump are,
\* finalization completes and run() returns.
C12_MismatchNeverFatal == coredump.read => (pc = "done" /\ exc = "")

\* C13: the list a write_request returns holds only records gdb printed in
\* answer to that request.
C13_ResponseAttribution ==
    \A k \in 1..Len(gdb_result.resp) : gdb_result.resp[k] = gdb_result.req

\* C14: a call through a register that holds, concretely, the expected
\* destination is not forced and its register is not written; the next state
\* is then one of the simulator's successors whenever a candidate is selected.
\* The step about to run executes "call reg" with reg = the next trace address.
RegCallCorrect ==
    LET st == heap[simstate]
        ins == code'[addr(st)]
    IN  /\ cnt' = cnt + 1
        /\ executed' = executed + 1
        /\ ins.mnemonic = "call"
        /\ ins.op0.type = X86_OP_REG
        /\ st.regs[ins.op0.reg] = T(cnt + 1).ip

C14_RegCallNatural ==
    [][RegCallCorrect =>
          /\ ~last'.force_jump
          /\ heap'[simstate].regs = heap[simstate].regs
          /\ last'.path \in {"matched", "selfloop"} => heap'[simstate'].natural]_vars

C14_Witness ==
    /\ returned
    /\ prior_insn = Insn("call", RegOp("rax"), NoOp)
    /\ heap[prior].regs["rax"] = T(cnt).ip
    /\ ~last.force_jump
    /\ last.path = "matched"
    /\ heap[simstate].natural
    /\ heap[simstate].regs["rsp"] = heap[prior].regs["rsp"] - WordSize

\* C15: a step that lands on the resolver stub is redone when the function of
\* the state recorded before the stepped one is found; in every other case the
\* run is aborted by HaseError.
C15_LazyBindingRedirect ==
    (executed > 0 /\ last.stub # "") =>
        IF last.stub = "found"
        THEN exc \notin {"HaseError", "IndexError"}
        ELSE pc = "raised" /\ exc = "HaseError"

\* C16: run() ends; every call of execute() is for the next edge of the trace,
\* so no edge is executed twice; a run that returns has made n-1 calls; and on
\* a trace that ends with X, X the candidate selected on the last step is
\* selected by the self-loop match.
SelfLoopLast ==
    (/\ returned
     /\ cnt = Len(trace) - 1
     /\ Len(trace) > 2
     /\ T(cnt).ip = T(cnt - 1).ip
     /\ last.path \in {"matched", "selfloop"}) => last.path = "selfloop"

IndicesOf(n, k) ==
    LET every == IF n \div SampleDivisor >= 1 THEN n \div SampleDivisor ELSE 1
    IN  {c \in 0..k : c % every = 0 \/ (n - 1) - c < FinalSteps}

C17_SamplingDeterminism ==
    /\ pc # "raised" => recorded = IndicesOf(Len(trace), cnt)
    /\ pc = "raised" => \E k \in {cnt - 1, cnt} : recorded = IndicesOf(Len(trace), k)

C17_Witness ==
    /\ pc = "done"
    /\ Len(trace) = 2 * SampleDivisor
    /\ last.path = "fallback"
    /\ 1 \notin recorded
    /\ 2 \in recorded
    /\ major_states[Len(major_states)].index = Len(trace) - 1

\* C18: find_mapping(ip) returns a region of the mapping table that contains
\* ip whenever the table has one, and None only when it has none.
Contains(m, ip) == m.start <= ip /\ ip < m.stop

C18_FindMapping ==
    loader_ret.op = "find_mapping" =>
        LET ip == loader_ret.ip
            found == loader_ret.found
        IN  IF \E i \in 1..Len(mappings) : Contains(mappings[i], ip)
            THEN /\ Len(found) = 1
                 /\ Contains(found[1], ip)
                 /\ \E i \in 1..Len(mappings) :
                       /\ mappings[i].path = found[1].path
                       /\ mappings[i].start = found[1].start
                       /\ mappings[i].stop = found[1].stop
            ELSE found = <<>>

\* C19: the options load_options and build_load_options return register the
\* path of a mapping after the first iff it is absolute and its file is an ELF
\* file, once per path, at the start address of the first mapping of the table
\* with that path.
IsElf(m) == absolute(m.path) /\ files[m.path] = "elf"

Registered == {loader_ret.force_load_libs[k] : k \in 1..Len(loader_ret.force_load_libs)}

C19_LibraryLoadOptions ==
    (loader_ret.op \in {"load_options", "build_load_options"} /\ loader_ret.exc = "") =>
        /\ \A i \in 2..Len(mappings) : mappings[i].path \in Registered <=> IsElf(mappings[i])
        /\ Cardinality(Registered) = Len(loader_ret.force_load_libs)
        /\ DOMAIN loader_ret.lib_opts = Registered
        /\ \A p \in Registered :
              \E i \in 1..Len(mappings) :
                  /\ mappings[i].path = p
                  /\ \A j \in 1..(i - 1) : mappings[j].path # p
                  /\ loader_ret.lib_opts[p] = mappings[i].start

\* C20: the base address of the main_opts that load_options and
\* build_load_options return is the start address of the first entry of the
\* mapping table, whatever the file of that entry is.
C20_MainIsFirstMapping ==
    (loader_ret.op \in {"load_options", "build_load_options"} /\ loader_ret.exc = "") =>
        loader_ret.main_opts = mappings[1].start

\* C21: the major states have trace indices within [0, len(trace)], strictly
\* increasing in order of insertion and starting with index 0; a step of the
\* loop leaves the major states it found in place and at most appends to them.
HistoryShape ==
    /\ Len(major_states) >= 1
    /\ major_states[1].index = 0
    /\ \A i \in 1..Len(major_states) :
          /\ major_states[i].index \in 0..Len(trace)
          /\ i > 1 => major_states[i - 1].index < major_states[i].index

C21_HistoryShape ==
    /\ []HistoryShape
    /\ [][/\ Len(major_states') >= Len(major_states)
          /\ SubSeq(major_states', 1, Len(major_states)) = major_states]_vars

C21_Witness ==
    /\ pc = "done"
    /\ Len(major_states) > FinalSteps + 1
    /\ Len(major_states) < Len(trace)
    /\ major_states[Len(major_states)].index = Len(trace) - 1

\* C22: a call or jmp is forced only when its operand does not evaluate,
\* concretely, to the expected destination: one with an immediate operand, and
\* one through a memory word that holds the expected destination, is not forced.
\* the word a memory operand designates in st (Sym when a register is symbolic)
MemTarget(st, op) ==
    IF \/ op.base # "" /\ symbolic(st.regs[op.base])
       \/ op.index # "" /\ symbolic(st.regs[op.index])
    THEN Sym
    ELSE Load(st.mem, op.disp
                      + (IF op.index # "" THEN st.regs[op.index] * op.scale ELSE 0)
                      + (IF op.base # "" THEN st.regs[op.base] ELSE 0))

Transfer ==
    /\ returned
    /\ last.path # "step_error"
    /\ prior_insn.mnemonic \in {"call", "jmp"}

C22_RepairOnlyOnDivergence ==
    Transfer =>
        /\ prior_insn.op0.type = X86_OP_IMM => ~last.force_jump
        /\ (/\ prior_insn.op0.type = X86_OP_MEM
            /\ MemTarget(heap[prior], prior_insn.op0) = T(cnt).ip) => ~last.force_jump

\* C23: the successor execute() synthesizes through the jump repair is at the
\* expected destination; for a call its stack pointer is the prior one minus 8
\* and the word there is the call's fall-through address, for a return it is
\* the prior one plus 8, for a jmp it is the prior one.
Synthesized ==
    /\ returned
    /\ pc = "run"
    /\ last.force_jump
    /\ last.path # "step_error"

C23_ForcedStackEffect ==
    Synthesized =>
        LET old == heap[prior]
            new == heap[simstate]
            sp == new.regs["rsp"]
        IN  /\ addr(new) = T(cnt).ip
            /\ prior_insn.mnemonic = "call" =>
                  /\ sp = Plus(old.regs["rsp"], 0 - WordSize)
                  /\ ~symbolic(sp) => Load(new.mem, sp) = addr(old) + InsnSize
            /\ prior_insn.mnemonic = "ret" => sp = Plus(old.regs["rsp"], WordSize)
            /\ prior_insn.mnemonic = "jmp" => sp = old.regs["rsp"]

\* C24: when no forced jump applies, a step with exactly one candidate makes
\* that candidate the next state, not a copy of the prior state; of two
\* candidates the one at the expected destination is the next state.
Unforced ==
    /\ returned
    /\ pc = "run"
    /\ ~last.force_jump
    /\ last.path # "step_error"

C24_NaturalSelection ==
    Unforced =>
        /\ last.cands = 1 => heap[simstate].natural
        /\ (last.cands = 2 /\ last.path \in {"matched", "selfloop"}) =>
              (heap[simstate].natural /\ addr(heap[simstate]) = T(cnt).ip)

\* C25: the start state's stack registers come from the debugger's values for
\* the start frame, a value that is None or 0 being replaced by the sentinel:
\* at a function entry rsp is that base pointer plus 8 and rbp is left as the
\* state factory gave it, otherwise rsp and rbp are those two values.
C25_InitialStack ==
    stack_setup # <<>> /\ stack_setup.done =>
        LET sp == IF stack_setup.rsp_in \in {NoneVal, 0} THEN Sentinel
                  ELSE stack_setup.rsp_in
            bp == IF stack_setup.rbp_in \in {NoneVal, 0} THEN Sentinel
                  ELSE stack_setup.rbp_in
        IN  IF stack_setup.is_start_entry
            THEN stack_setup.rsp = bp + 8 /\ stack_setup.rbp = Sym
            ELSE stack_setup.rsp = sp /\ stack_setup.rbp = bp

C25_Witness ==
    /\ stack_setup # <<>>
    /\ stack_setup.done
    /\ stack_setup.is_start_entry
    /\ stack_setup.rbp_in = 0
    /\ stack_setup.rsp_in # 0
    /\ stack_setup.rsp = Sentinel + 8

\* a step of run() whose chosen successor is left infeasible
InfeasibleStep ==
    /\ simstate' # simstate
    /\ ~satisfiable(heap'[simstate'].cons)

\* C26: within one run() the diagnostic pair is unset until the first step
\* whose chosen successor is infeasible, that step sets it to its prior state
\* and its successor, and no later step overwrites it.
C26_FirstInfeasibility ==
    /\ [](debug_unsat = 0 <=> debug_sat = 0)
    /\ [][/\ debug_unsat # 0 => UNCHANGED <<debug_sat, debug_unsat>>
          /\ debug_unsat = 0 /\ debug_unsat' # 0 =>
                debug_sat' = simstate /\ debug_unsat' = simstate'
          /\ debug_unsat = 0 /\ InfeasibleStep => debug_unsat' # 0]_vars

\* C27: every step of run() that records a major state records the edge
\* (trace[c-1], trace[c]) with state_before the state that was current before
\* the step and state_after the new current state, a different state object.
C27_HistoryContinuity ==
    [][Len(major_states') > Len(major_states) =>
          LET e == major_states'[Len(major_states')]
          IN  /\ e.index = cnt'
              /\ e.previous_instruction = cnt' - 1
              /\ e.instruction = cnt'
              /\ e.state_before = simstate
              /\ e.state_after = simstate'
              /\ e.state_after # e.state_before]_vars

EntryHits ==
    {k \in 1..Len(raw_trace) :
        raw_trace[k].ip \in {elf_symbols.start, elf_symbols.main} \ {NoneVal}}

\* C29: when the loop has finished, self.trace is the raw trace's suffix that
\* starts at the last event at the address of _start or main, the events in
\* their order and unchanged, and is the whole raw trace if there is no such
\* event.
C29_EntryTrimming ==
    trimming.idx = Len(raw_trace) =>
        IF EntryHits = {}
        THEN trimming.trace = raw_trace
        ELSE \E m \in EntryHits :
                /\ \A k \in EntryHits : k <= m
                /\ Len(trimming.trace) = Len(raw_trace) - m + 1
                /\ \A j \in 1..Len(trimming.trace) :
                      trimming.trace[j] = raw_trace[m + j - 1]

C29_Witness ==
    /\ trimming.idx = Len(raw_trace)
    /\ \E a, b \in EntryHits : 1 < a /\ a < b
                               /\ raw_trace[a].ip = elf_symbols.main
                               /\ raw_trace[b].ip = elf_symbols.start
    /\ Len(trimming.trace) = 2

\* the value a text config assigns to an option: 0 if not listed, 1 if listed
\* without a value
Assigned(loc) ==
    IF loc \notin DOMAIN text_config THEN 0
    ELSE IF text_config[loc] = NoneVal THEN 1 ELSE text_config[loc]

\* C30: converting a text config to hex and that hex value back to text yields,
\* for every option of the layout, the value the text config assigned to it
\* (0 for an option it does not list), options wider than one bit included.
C30_RoundTrip ==
    pt_ret.op = "hex_to_text" =>
        /\ pt_ret.exc = ""
        /\ \A loc \in pt_options : pt_ret.vals[loc] = Assigned(loc)

=============================================================================
